---- MODULE Spec2Model ----
(***************************************************************************)
(* A model of genesis_devtools: the ZFS backup orchestration               *)
(* (backup/zfs.py), the volume name derivation, the libvirt adapters'      *)
(* domains, networks and rendered descriptor (infra/libvirt/libvirt.py and *)
(* libvirt.py), the credential file and the IAM client (clients/iam.py),   *)
(* and the selection of the domains to back up (cmd/cli.py).               *)
(*                                                                         *)
(* Strings the code inspects (disk paths, domain names, patterns) are      *)
(* sequences of one-character strings.  Every external command (zfs,       *)
(* virsh, rm) is a step whose outcome the environment chooses.  Each        *)
(* subsystem has its own specification; the others stay idle in it.        *)
(***************************************************************************)
EXTENDS Integers, Sequences, FiniteSets, TLC

VARIABLES
    \* ---- AbstractZfsBackuper.backup_domains ----
    domains,                 \* the input list of domain names
    idx,                     \* position of the for loop over domains (1-based)
    table,                   \* rows added to the summary table
    summary,                 \* TRUE once the summary has been logged
    attempted,               \* domains _backup_domain was invoked for, in order
    outcomes,                \* per invocation: "returned" or "raised"
    \* ---- AbstractZfsBackuper._backup_domain (the running invocation) ----
    pc,                      \* position in backup_domains / _backup_domain
    domain,
    disks,
    volumes,
    volumes_with_snapshots,
    status,
    duration,
    total_size,
    k,                       \* position of the running for loop (1-based)
    raising,                 \* an exception is in flight through the finally
    result,                  \* the tuple _backup_domain returned
    calls,                   \* external calls of the running invocation
    \* ---- volume_from_disk_path applied to one path ----
    vp_path,
    vp_result,
    vp_pc,
    \* ---- the hypervisor and the pool, as the libvirt adapters see them ----
    lv_state,                \* per domain name: "undefined", "shutoff", "running"
    lv_disks,                \* per domain name: the source files of its descriptor
    lv_files,                \* the disk files that exist in the pool
    lv_uuid,                 \* uuids handed out so far
    lv_last,                 \* the last adapter call and how it ended
    lv_prev,                 \* the adapter call before it
    lv_cmds,                 \* the virsh and rm commands of the last call
    \* ---- create_domain rendering the descriptor of one domain ----
    dx_args,                 \* uuid, disks, image, config_drive, boot
    dx_xml,                  \* the <disk> elements of the descriptor, in order
    dx_boot,                 \* the <boot> elements of the descriptor, in order
    dx_pc,
    \* ---- the hypervisor's networks (define_network, destroy_net) ----
    net_state,               \* per network name: "undefined", "inactive",
                             \* "active", "transient"
    net_cmds,                \* the virsh commands of the last call
    net_last,                \* the last network call and how it ended
    \* ---- Token.save by two processes on one project directory ----
    tk_file,                 \* the credential file: "absent", "old", "empty"
                             \* or the name of the process whose token it holds
    tk_mode,                 \* its permissions ("none" while absent)
    tk_dir,                  \* the directory of the file exists
    tk_pc,                   \* per process: its position in save
    tk_force,                \* per process: the force argument
    tk_seen,                 \* per process: the file as os.path.exists saw it
    tk_log,                  \* the open and dump steps taken, in order
    \* ---- one call of IAMClient ----
    iam_call,                \* "get_token_by_password", "refresh" or "me"
    iam_client,              \* the client's _ttl and _scope
    iam_token,               \* the Token passed to refresh or me
    iam_ttl,                 \* refresh's ttl: <<>> for None, <<n>> otherwise
    iam_scope,               \* refresh's scope: <<>> for None, <<s>> otherwise
    iam_reply,               \* what requests.request meets
    iam_request,             \* the request that was sent
    iam_result,              \* what the call returned or raised
    iam_pc,
    \* ---- one call of _domains_for_backup ----
    sel_domains,             \* the requested names, in order
    sel_exclude,             \* the exclude patterns, in order
    sel_all,                 \* what list_domains returns
    sel_result,
    sel_pc,
    \* ---- one call of backup_domain (the file-copy backup) ----
    bd_name,                 \* the domain backed up
    bd_pc,
    bd_cmds,                 \* the commands and file writes made, in order
    bd_k,                    \* position in the loop over the disks
    bd_raising               \* an exception is in flight in the try block

backupVars == <<domains, idx, table, summary, attempted, outcomes, pc, domain,
                disks, volumes, volumes_with_snapshots, status, duration,
                total_size, k, raising, result, calls>>
volVars == <<vp_path, vp_result, vp_pc>>
libvirtVars == <<lv_state, lv_disks, lv_files, lv_uuid, lv_last, lv_prev,
                 lv_cmds>>
descVars == <<dx_args, dx_xml, dx_boot, dx_pc>>
netVars == <<net_state, net_cmds, net_last>>
tokenVars == <<tk_file, tk_mode, tk_dir, tk_pc, tk_force, tk_seen, tk_log>>
iamVars == <<iam_call, iam_client, iam_token, iam_ttl, iam_scope, iam_reply,
             iam_request, iam_result, iam_pc>>
selVars == <<sel_domains, sel_exclude, sel_all, sel_result, sel_pc>>
copyVars == <<bd_name, bd_pc, bd_cmds, bd_k, bd_raising>>
restVars == <<descVars, netVars, tokenVars, iamVars, selVars,
              copyVars>>
vars == <<backupVars, volVars, libvirtVars, restVars>>

-----------------------------------------------------------------------------
\* Bounds of the model.
MaxDomains == 2
MaxDisks == 2
MaxTail == 3
MaxCreates == 2
MaxNewDisks == 2

None == "None"

\* All sequences over S of length at most n.
SeqsUpTo(S, n) == UNION {[1..m -> S] : m \in 0..n}

-----------------------------------------------------------------------------
\* Disk paths.

ZvolPrefix == <<"/", "d", "e", "v", "/", "z", "v", "o", "l", "/">>

\* str.startswith
startswith(s, prefix) ==
    /\ Len(s) >= Len(prefix)
    /\ SubSeq(s, 1, Len(prefix)) = prefix

\* str.rfind(ch) + 1: the 1-based position of the last ch, 0 when there is none.
rfind1(s, ch) ==
    LET hits == {j \in 1..Len(s) : s[j] = ch}
    IN  IF hits = {} THEN 0 ELSE CHOOSE j \in hits : \A h \in hits : h <= j

\* os.path.basename: p[p.rfind("/") + 1:]
basename(p) == SubSeq(p, rfind1(p, "/") + 1, Len(p))

\* A derivation that always takes the basename.
volume_from_disk_path_Basename(disk_path) == basename(disk_path)

volume_from_disk_path(disk_path) ==
    IF startswith(disk_path, ZvolPrefix)
    THEN SubSeq(disk_path, Len(ZvolPrefix) + 1, Len(disk_path))
    ELSE basename(disk_path)

\* Paths get_domain_disks may report: a zvol and an image file.
ZvolDisk == ZvolPrefix \o <<"p", "/", "a">>
ImageDisk == <<"/", "x", "/", "a">>
DiskPaths == {ZvolDisk, ImageDisk}

DomainNames == {"vm1", "vm2"}

\* What "zfs list -Hp -o used" may print for a volume.
UsedBytes == {2}

-----------------------------------------------------------------------------
\* AbstractZfsBackuper

\* utils.human_readable_size: the formatted size keeps the byte count.
human_readable_size(n) == <<"human_readable_size", n>>

\* One external call: the operation, its position in the loop that made it (0
\* outside a loop), its argument, whether it returned (ok) or raised, and the
\* number it returned (0 when it returns none).
CallVal(op, pos, vol, ok, val) ==
    [op |-> op, pos |-> pos, vol |-> vol, ok |-> ok, val |-> val]
Call(op, pos, vol, ok) == CallVal(op, pos, vol, ok, 0)

\* The row _backup_domain returns: domain, ts, te, duration, size, status.
Row(d, te, dur, size, st) ==
    [domain |-> d, ts |-> "ts", te |-> te, duration |-> dur, size |-> size,
     status |-> st]

BackupInit ==
    /\ domains \in SeqsUpTo(DomainNames, MaxDomains)
    /\ idx = 1
    /\ table = <<>>
    /\ summary = FALSE
    /\ attempted = <<>>
    /\ outcomes = <<>>
    /\ pc = "loop"
    /\ domain = None
    /\ disks = <<>>
    /\ volumes = <<>>
    /\ volumes_with_snapshots = <<>>
    /\ status = None
    /\ duration = None
    /\ total_size = 0
    /\ k = 1
    /\ raising = FALSE
    /\ result = None
    /\ calls = <<>>

\* An invocation that starts as a success.
InitialStatus_Success == "success"

\* status = "failed" at the start of _backup_domain.
InitialStatus == "failed"

\* backup_domains, the for loop: call _backup_domain for the next domain;
\* _backup_domain starts with its initial status and no duration.
NextDomain ==
    /\ UNCHANGED <<volVars, libvirtVars, restVars>>
    /\ pc = "loop"
    /\ idx <= Len(domains)
    /\ domain' = domains[idx]
    /\ attempted' = Append(attempted, domains[idx])
    /\ status' = InitialStatus
    /\ duration' = None
    /\ disks' = <<>>
    /\ volumes' = <<>>
    /\ volumes_with_snapshots' = <<>>
    /\ total_size' = 0
    /\ k' = 1
    /\ raising' = FALSE
    /\ result' = None
    /\ calls' = <<>>
    /\ pc' = "domain_xml"
    /\ UNCHANGED <<domains, idx, table, summary, outcomes>>

\* libvirt.domain_xml(domain): virsh dumpxml, which may exit non-zero.
DomainXml ==
    /\ UNCHANGED <<volVars, libvirtVars, restVars>>
    /\ pc = "domain_xml"
    /\ \E ok \in BOOLEAN :
        /\ calls' = Append(calls, Call("domain_xml", 0, <<>>, ok))
        /\ pc' = IF ok THEN "backup_domain_spec" ELSE "raised"
    /\ UNCHANGED <<domains, idx, table, summary, attempted, outcomes, domain,
                   disks, volumes, volumes_with_snapshots, status, duration,
                   total_size, k, raising, result>>

\* self.backup_domain_spec(...): the backend's export of the descriptor.
BackupDomainSpec ==
    /\ UNCHANGED <<volVars, libvirtVars, restVars>>
    /\ pc = "backup_domain_spec"
    /\ \E ok \in BOOLEAN :
        /\ calls' = Append(calls, Call("backup_domain_spec", 0, <<>>, ok))
        /\ pc' = IF ok THEN "get_domain_disks" ELSE "raised"
    /\ UNCHANGED <<domains, idx, table, summary, attempted, outcomes, domain,
                   disks, volumes, volumes_with_snapshots, status, duration,
                   total_size, k, raising, result>>

\* [volume_from_disk_path(d) for d in disks]
VolumesOf(ds) == [j \in 1..Len(ds) |-> volume_from_disk_path(ds[j])]

\* An early return that reports a formatted size and a success.
NoDisksRow_Success(d, st) == Row(d, None, None, <<"0">>, "success")

\* The early return for a domain without disks: te and duration are still
\* str(None), the size is the text "0".
NoDisksRow(d, st) == Row(d, None, None, <<"0">>, st)

\* disks = libvirt.get_domain_disks(domain), the zero-disk return and the
\* derivation of the volumes.
GetDomainDisks ==
    /\ UNCHANGED <<volVars, libvirtVars, restVars>>
    /\ pc = "get_domain_disks"
    /\ \/ /\ calls' = Append(calls, Call("get_domain_disks", 0, <<>>, FALSE))
          /\ pc' = "raised"
          /\ UNCHANGED <<disks, volumes, result>>
       \/ \E ds \in SeqsUpTo(DiskPaths, MaxDisks) :
            /\ calls' = Append(calls, Call("get_domain_disks", 0, <<>>, TRUE))
            /\ disks' = ds
            /\ IF Len(ds) = 0
               THEN /\ result' = NoDisksRow(domain, status)
                    /\ pc' = "returned"
                    /\ UNCHANGED volumes
               ELSE /\ volumes' = VolumesOf(ds)
                    /\ pc' = "create_snapshot"
                    /\ UNCHANGED result
    /\ k' = 1
    /\ UNCHANGED <<domains, idx, table, summary, attempted, outcomes, domain,
                   volumes_with_snapshots, status, duration, total_size,
                   raising>>

\* create_snapshot(volume, ...); volumes_with_snapshots.append(volume): the
\* append is skipped when create_snapshot raises.
SnapshotsAfterCreate(vws, volume, ok) == IF ok THEN Append(vws, volume) ELSE vws

\* A loop that swallows the failure of create_snapshot and goes on.
AfterCreate_Continue(ok, j, n) ==
    IF j = n THEN "backup_domain_disks" ELSE "create_snapshot"

\* A try block that exports the disks as soon as one snapshot exists.
AfterCreate_ExportFirst(ok, j, n) ==
    IF ~ok THEN "destroy_snapshot" ELSE "backup_domain_disks"

\* Where the try block goes after create_snapshot at position j of n volumes:
\* an exception leaves the loop for the finally block.
AfterCreate(ok, j, n) ==
    IF ~ok THEN "destroy_snapshot"
    ELSE IF j = n THEN "backup_domain_disks" ELSE "create_snapshot"

CreateSnapshot ==
    /\ UNCHANGED <<volVars, libvirtVars, restVars>>
    /\ pc = "create_snapshot"
    /\ k <= Len(volumes)
    /\ \E ok \in BOOLEAN :
        /\ calls' = Append(calls, Call("create_snapshot", k, volumes[k], ok))
        /\ volumes_with_snapshots' =
               SnapshotsAfterCreate(volumes_with_snapshots, volumes[k], ok)
        /\ raising' = ~ok
        /\ pc' = AfterCreate(ok, k, Len(volumes))
        /\ k' = IF AfterCreate(ok, k, Len(volumes)) = "create_snapshot"
                THEN k + 1 ELSE 1
    /\ UNCHANGED <<domains, idx, table, summary, attempted, outcomes, domain,
                   disks, volumes, status, duration, total_size, result>>

\* The first argument of self.backup_domain_disks.
ExportArgument(vols, vws) == vols

\* status = "success" is reached only when backup_domain_disks returned.
StatusAfterExport(st, ok) == IF ok THEN "success" ELSE st

BackupDomainDisks ==
    /\ UNCHANGED <<volVars, libvirtVars, restVars>>
    /\ pc = "backup_domain_disks"
    /\ \E ok \in BOOLEAN :
        /\ calls' = Append(calls,
               Call("backup_domain_disks", 0,
                    ExportArgument(volumes, volumes_with_snapshots), ok))
        /\ status' = StatusAfterExport(status, ok)
        /\ raising' = ~ok
    /\ pc' = "destroy_snapshot"
    /\ k' = 1
    /\ UNCHANGED <<domains, idx, table, summary, attempted, outcomes, domain,
                   disks, volumes, volumes_with_snapshots, duration,
                   total_size, result>>

\* A finally block that iterates over every volume of the domain.
TeardownTargets_AllVolumes(vols, vws) == vols

\* The list the finally block iterates over.
TeardownTargets(vols, vws) == vws

\* A finally loop that tries a failing destroy_snapshot again.
AfterDestroy_Retry(ok, j, n) == IF ok THEN j + 1 ELSE j

\* A finally loop that a failing destroy_snapshot ends.
AfterDestroy_Abort(ok, j, n) == IF ok THEN j + 1 ELSE n + 1

\* The finally loop after destroy_snapshot at position j of n: the exception
\* is caught and logged, the loop goes on.
AfterDestroy(ok, j, n) == j + 1

\* Whether an exception is in flight after destroy_snapshot.
RaisingAfterDestroy(r, ok) == r

DestroySnapshot ==
    /\ UNCHANGED <<volVars, libvirtVars, restVars>>
    /\ pc = "destroy_snapshot"
    /\ k <= Len(TeardownTargets(volumes, volumes_with_snapshots))
    /\ \E ok \in BOOLEAN :
        /\ calls' = Append(calls,
               Call("destroy_snapshot", k,
                    TeardownTargets(volumes, volumes_with_snapshots)[k], ok))
        /\ k' = AfterDestroy(ok, k,
                    Len(TeardownTargets(volumes, volumes_with_snapshots)))
        /\ raising' = RaisingAfterDestroy(raising, ok)
    /\ UNCHANGED <<domains, idx, table, summary, attempted, outcomes, pc,
                   domain, disks, volumes, volumes_with_snapshots, status,
                   duration, total_size, result>>

\* The end of the finally block: the duration is taken and logged, then the
\* exception in flight, if any, leaves _backup_domain.
FinallyEnd ==
    /\ UNCHANGED <<volVars, libvirtVars, restVars>>
    /\ pc = "destroy_snapshot"
    /\ k > Len(TeardownTargets(volumes, volumes_with_snapshots))
    /\ duration' = "duration"
    /\ pc' = IF raising THEN "raised" ELSE "volume_used_bytes"
    /\ k' = 1
    /\ UNCHANGED <<domains, idx, table, summary, attempted, outcomes, domain,
                   disks, volumes, volumes_with_snapshots, status, total_size,
                   raising, result, calls>>

\* A failing query that still counts the volume.
SizeAfterQuery_Always(total, ok, used) == total + used

\* total_size += volume_used_bytes(volume), with "except Exception: continue".
SizeAfterQuery(total, ok, used) == IF ok THEN total + used ELSE total

VolumeUsedBytes ==
    /\ UNCHANGED <<volVars, libvirtVars, restVars>>
    /\ pc = "volume_used_bytes"
    /\ k <= Len(volumes)
    /\ \E ok \in BOOLEAN, used \in UsedBytes :
        /\ calls' = Append(calls,
               CallVal("volume_used_bytes", k, volumes[k], ok,
                       IF ok THEN used ELSE 0))
        /\ total_size' = SizeAfterQuery(total_size, ok, used)
    /\ k' = k + 1
    /\ UNCHANGED <<domains, idx, table, summary, attempted, outcomes, pc,
                   domain, disks, volumes, volumes_with_snapshots, status,
                   duration, raising, result>>

\* size, te and the return of _backup_domain.
Return ==
    /\ UNCHANGED <<volVars, libvirtVars, restVars>>
    /\ pc = "volume_used_bytes"
    /\ k > Len(volumes)
    /\ result' = Row(domain, "te", duration, human_readable_size(total_size),
                     status)
    /\ pc' = "returned"
    /\ UNCHANGED <<domains, idx, table, summary, attempted, outcomes, domain,
                   disks, volumes, volumes_with_snapshots, status, duration,
                   total_size, k, raising, calls>>

\* A table that puts the newest row first.
TableAfterReturn_Prepend(t, row) == <<row>> \o t

\* table.add_row(...)
TableAfterReturn(t, row) == Append(t, row)

\* backup_domains: table.add_row for a domain whose backup returned.
AddRow ==
    /\ UNCHANGED <<volVars, libvirtVars, restVars>>
    /\ pc = "returned"
    /\ table' = TableAfterReturn(table, result)
    /\ outcomes' = Append(outcomes, "returned")
    /\ idx' = idx + 1
    /\ pc' = "loop"
    /\ UNCHANGED <<domains, summary, attempted, domain, disks, volumes,
                   volumes_with_snapshots, status, duration, total_size, k,
                   raising, result, calls>>

\* A loop that lets the failure of one domain leave backup_domains.
AfterDomainFailure_Propagate == "aborted"

\* backup_domains: where "except Exception" leaves the loop: the failure is
\* logged and the loop continues.
AfterDomainFailure == "loop"

SkipDomain ==
    /\ UNCHANGED <<volVars, libvirtVars, restVars>>
    /\ pc = "raised"
    /\ outcomes' = Append(outcomes, "raised")
    /\ idx' = idx + 1
    /\ pc' = AfterDomainFailure
    /\ UNCHANGED <<domains, table, summary, attempted, domain, disks, volumes,
                   volumes_with_snapshots, status, duration, total_size, k,
                   raising, result, calls>>

\* backup_domains: the summary is logged after the last domain.
Summary ==
    /\ UNCHANGED <<volVars, libvirtVars, restVars>>
    /\ pc = "loop"
    /\ idx > Len(domains)
    /\ summary' = TRUE
    /\ pc' = "done"
    /\ UNCHANGED <<domains, idx, table, attempted, outcomes, domain, disks,
                   volumes, volumes_with_snapshots, status, duration,
                   total_size, k, raising, result, calls>>

-----------------------------------------------------------------------------
\* The libvirt adapters: infra/libvirt/libvirt.py and the older libvirt.py.
\* virsh answers from the hypervisor's state: a command that names a domain
\* that is not defined exits non-zero.

LvNames == {"vm1", "vm2"}

\* The network names the calls are made with.
NetNames == {"net1", "net2"}

\* A call of define_network or destroy_net: the network's state before it
\* and how the call ended.
NetCall(op, name, before, res) ==
    [op |-> op, name |-> name, before |-> before, result |-> res]

\* The image copied into the pool, os.path.join(pool, image_name).
PoolImage == <<0, 0>>

\* f"{uuid}-{i}.qcow2" in the pool.
NewDisk(uuid, i) == <<uuid, i>>

Hypervisor == <<lv_state, lv_disks, lv_files>>

AdapterCall(op, name, absent, res, after) ==
    [op |-> op, name |-> name, absent |-> absent, result |-> res,
     after |-> after]

LibvirtInit ==
    /\ lv_state = [n \in LvNames |-> "undefined"]
    /\ lv_disks = [n \in LvNames |-> <<>>]
    /\ lv_files = {}
    /\ lv_uuid = 0
    /\ lv_last = AdapterCall("none", "none", FALSE, "none",
                             <<[n \in LvNames |-> "undefined"],
                               [n \in LvNames |-> <<>>], {}>>)
    /\ lv_prev = lv_last
    /\ lv_cmds = <<>>

\* The elements of a sequence.
Range(f) == {f[j] : j \in DOMAIN f}

\* "virsh dumpxml name" exits zero.
VirshDumpxmlOk(st, name) == st[name] # "undefined"

\* "virsh destroy name": stops a running domain, fails otherwise.
VirshDestroy(st, name) ==
    IF st[name] = "running"
    THEN [ok |-> TRUE, st |-> [st EXCEPT ![name] = "shutoff"]]
    ELSE [ok |-> FALSE, st |-> st]

\* "virsh undefine name": removes a defined domain, fails otherwise.
VirshUndefine(st, name) ==
    IF st[name] # "undefined"
    THEN [ok |-> TRUE, st |-> [st EXCEPT ![name] = "undefined"]]
    ELSE [ok |-> FALSE, st |-> st]

\* is_active_domain: the name is not in "virsh list --inactive --name".
is_active_domain(st, name) == name \notin {n \in LvNames : st[n] = "shutoff"}

\* The disks create_domain creates with qemu-img: disks[index:], numbered
\* from index.
CreatedDisks(uuid, ndisks, image) ==
    [j \in 1..(ndisks - (IF image THEN 1 ELSE 0)) |->
        NewDisk(uuid, j - 1 + (IF image THEN 1 ELSE 0))]

\* One external command of a call and whether it exited zero.
Cmd(cmd, ok) == [cmd |-> cmd, ok |-> ok]

\* create_domain(name, ..., image, disks): the image is copied into the pool,
\* the other disks are created, the domain is defined and started; when
\* define or start fails the created disks are removed and create_domain
\* returns.
CreateDomain(name, ndisks, image, define_ok, start_ok) ==
    /\ lv_uuid < MaxCreates
    /\ lv_uuid' = lv_uuid + 1
    /\ lv_prev' = lv_last
    /\ IF ndisks = 0
       THEN /\ UNCHANGED <<lv_state, lv_disks, lv_files>>
            /\ lv_cmds' = <<>>
            /\ lv_last' = AdapterCall("create_domain", name,
                              lv_state[name] = "undefined", "raised",
                              Hypervisor)
       ELSE LET created == CreatedDisks(lv_uuid + 1, ndisks, image)
                sources == (IF image THEN <<PoolImage>> ELSE <<>>) \o created
                defined == define_ok /\ lv_state[name] = "undefined"
                started == defined /\ start_ok
                files1 == lv_files \cup Range(sources)
            IN  /\ lv_cmds' =
                      <<Cmd("virsh define", defined)>>
                      \o (IF defined THEN <<Cmd("virsh start", started)>>
                          ELSE <<>>)
                      \o (IF started THEN <<>>
                          ELSE [j \in DOMAIN created |-> Cmd("rm -f", TRUE)])
                /\ lv_state' =
                      IF started THEN [lv_state EXCEPT ![name] = "running"]
                      ELSE IF defined
                           THEN [lv_state EXCEPT ![name] = "shutoff"]
                           ELSE lv_state
                /\ lv_disks' =
                      IF defined THEN [lv_disks EXCEPT ![name] = sources]
                      ELSE lv_disks
                /\ lv_files' =
                      IF started THEN files1 ELSE files1 \ Range(created)
                /\ lv_last' = AdapterCall("create_domain", name,
                                  lv_state[name] = "undefined", "returned",
                                  <<lv_state', lv_disks', lv_files'>>)

\* destroy_domain of infra/libvirt/libvirt.py.
DestroyDomain(name) ==
    /\ lv_prev' = lv_last
    /\ UNCHANGED lv_uuid
    /\ IF ~VirshDumpxmlOk(lv_state, name)
       THEN \* get_domain_disks: check_output raises CalledProcessError
            /\ UNCHANGED <<lv_state, lv_disks, lv_files>>
            /\ lv_cmds' = <<Cmd("virsh dumpxml", FALSE)>>
            /\ lv_last' = AdapterCall("destroy_domain", name,
                              lv_state[name] = "undefined", "raised",
                              Hypervisor)
       ELSE LET domain_disks == lv_disks[name]
                active == is_active_domain(lv_state, name)
                r1 == VirshDestroy(lv_state, name)
                st1 == IF active THEN r1.st ELSE lv_state
                r2 == VirshUndefine(st1, name)
                st2 == r2.st
            IN  /\ lv_state' = st2
                /\ lv_disks' =
                      IF st2[name] = "undefined"
                      THEN [lv_disks EXCEPT ![name] = <<>>]
                      ELSE lv_disks
                /\ lv_files' = lv_files \ Range(domain_disks)
                /\ lv_cmds' =
                      <<Cmd("virsh dumpxml", TRUE)>>
                      \o (IF active THEN <<Cmd("virsh destroy", r1.ok)>>
                          ELSE <<>>)
                      \o <<Cmd("virsh undefine", r2.ok)>>
                      \o [j \in DOMAIN domain_disks |-> Cmd("rm -f", TRUE)]
                /\ lv_last' = AdapterCall("destroy_domain", name,
                                  lv_state[name] = "undefined", "returned",
                                  <<lv_state', lv_disks', lv_files'>>)

\* destroy_domain of the older libvirt.py: virsh destroy is always tried and
\* only the first disk is removed.
DestroyDomainLegacy(name) ==
    /\ lv_prev' = lv_last
    /\ UNCHANGED lv_uuid
    /\ IF ~VirshDumpxmlOk(lv_state, name)
       THEN \* get_domain_disk: check_output raises CalledProcessError
            /\ UNCHANGED <<lv_state, lv_disks, lv_files>>
            /\ lv_cmds' = <<Cmd("virsh dumpxml", FALSE)>>
            /\ lv_last' = AdapterCall("destroy_domain_legacy", name,
                              lv_state[name] = "undefined", "raised",
                              Hypervisor)
       ELSE LET disk_path == SubSeq(lv_disks[name], 1, 1)
                r1 == VirshDestroy(lv_state, name)
                st1 == r1.st
                r2 == VirshUndefine(st1, name)
                st2 == r2.st
            IN  /\ lv_state' = st2
                /\ lv_disks' =
                      IF st2[name] = "undefined"
                      THEN [lv_disks EXCEPT ![name] = <<>>]
                      ELSE lv_disks
                /\ lv_files' = lv_files \ Range(disk_path)
                /\ lv_cmds' =
                      <<Cmd("virsh dumpxml", TRUE),
                        Cmd("virsh destroy", r1.ok),
                        Cmd("virsh undefine", r2.ok)>>
                      \o [j \in DOMAIN disk_path |-> Cmd("rm -f", TRUE)]
                /\ lv_last' = AdapterCall("destroy_domain_legacy", name,
                                  lv_state[name] = "undefined", "returned",
                                  <<lv_state', lv_disks', lv_files'>>)

CreateDomainCall ==
    /\ \E name \in LvNames, ndisks \in 0..MaxNewDisks,
          image \in BOOLEAN, define_ok \in BOOLEAN, start_ok \in BOOLEAN :
            CreateDomain(name, ndisks, image, define_ok, start_ok)
    /\ UNCHANGED <<backupVars, volVars, restVars>>

DestroyDomainCall ==
    /\ \E name \in LvNames : DestroyDomain(name)
    /\ UNCHANGED <<backupVars, volVars, restVars>>

DestroyDomainLegacyCall ==
    /\ \E name \in LvNames : DestroyDomainLegacy(name)
    /\ UNCHANGED <<backupVars, volVars, restVars>>

LibvirtNext ==
    \/ CreateDomainCall
    \/ DestroyDomainCall
    \/ DestroyDomainLegacyCall

\* No network call has been made and no network is defined.
NetIdle ==
    /\ net_state = [n \in NetNames |-> "undefined"]
    /\ net_cmds = <<>>
    /\ net_last = NetCall("none", "none", "undefined", "none")

\* create_domain is not rendering a descriptor.
DescIdle ==
    /\ dx_args = [uuid |-> 0, ndisks |-> 0, image |-> FALSE,
                  use_image_inplace |-> FALSE, config_drive |-> FALSE,
                  boot |-> "hd"]
    /\ dx_xml = <<>>
    /\ dx_boot = <<>>
    /\ dx_pc = "idle"

\* The processes that save a token.
Procs == {"p1", "p2"}

\* No process is saving a token and there is no credential file.
TokenIdle ==
    /\ tk_file = "absent"
    /\ tk_mode = "none"
    /\ tk_dir = FALSE
    /\ tk_pc = [p \in Procs |-> "idle"]
    /\ tk_force = [p \in Procs |-> FALSE]
    /\ tk_seen = [p \in Procs |-> "unchecked"]
    /\ tk_log = <<>>

\* A Token.
Token(url, project_id, token, refresh_token, ttl, scope) ==
    [url |-> url, project_id |-> project_id, token |-> token,
     refresh_token |-> refresh_token, ttl |-> ttl, scope |-> scope]

\* No Token: the call has not returned one.
NoToken == Token("", "", "", "", 0, "")

\* No request has been sent.
NoRequest ==
    [method |-> "", url |-> <<>>, grant_type |-> "", ttl |-> <<>>,
     scope |-> ""]

\* What a call of the client ends with: a Token, the payload, or an
\* exception and the fragments of its message.
Outcome(kind, msg, token) == [kind |-> kind, msg |-> msg, token |-> token]

\* What requests.request meets: an exception, or a response with its status
\* and body (not JSON, JSON but no object, or an object with these fields).
Reply(transport, status_code, json, object, fields, text) ==
    [transport |-> transport, status |-> status_code, json |-> json,
     object |-> object, fields |-> fields, text |-> text]

\* No call of the client is made.
IamIdle ==
    /\ iam_call = "none"
    /\ iam_client = [ttl |-> 0, scope |-> ""]
    /\ iam_token = NoToken
    /\ iam_ttl = <<>>
    /\ iam_scope = <<>>
    /\ iam_reply = Reply(FALSE, 0, FALSE, FALSE, {}, "")
    /\ iam_request = NoRequest
    /\ iam_result = Outcome("none", <<>>, NoToken)
    /\ iam_pc = "idle"

\* _domains_for_backup is not called.
SelIdle ==
    /\ sel_domains = <<>>
    /\ sel_exclude = <<>>
    /\ sel_all = {}
    /\ sel_result = <<>>
    /\ sel_pc = "idle"

\* backup_domain is not called.
CopyIdle ==
    /\ bd_name = "none"
    /\ bd_pc = "idle"
    /\ bd_cmds = <<>>
    /\ bd_k = 1
    /\ bd_raising = FALSE

RestIdle ==
    /\ DescIdle
    /\ NetIdle
    /\ TokenIdle
    /\ IamIdle
    /\ SelIdle
    /\ CopyIdle

VolIdle ==
    /\ vp_path = <<>>
    /\ vp_result = <<>>
    /\ vp_pc = "idle"

Init ==
    /\ BackupInit
    /\ VolIdle
    /\ LibvirtInit
    /\ RestIdle

Next ==
    \/ NextDomain
    \/ DomainXml
    \/ BackupDomainSpec
    \/ GetDomainDisks
    \/ CreateSnapshot
    \/ BackupDomainDisks
    \/ DestroySnapshot
    \/ FinallyEnd
    \/ VolumeUsedBytes
    \/ Return
    \/ AddRow
    \/ SkipDomain
    \/ Summary

Spec == Init /\ [][Next]_vars

\* backup_domains called with a list that names one domain any number of
\* times: what the run does next never depends on a domain's name.
FairInit == Init /\ \A j \in DOMAIN domains : domains[j] = "vm1"

\* backup_domains is one sequential thread: when every external command and
\* backend call returns or raises, the step the thread is at is taken.
FairSpec == FairInit /\ [][Next]_vars /\ WF_vars(Next)

-----------------------------------------------------------------------------
\* volume_from_disk_path on its own: one path in, one volume name out.

\* The two paths of the documentation.
ExampleZvolPath == ZvolPrefix \o <<"p", "o", "o", "l", "/", "c", "h", "i", "l", "d">>
ExampleImagePath ==
    <<"/", "v", "a", "r", "/", "l", "i", "b", "/", "l", "i", "b", "v", "i",
      "r", "t", "/", "i", "m", "a", "g", "e", "s", "/", "d", "i", "s", "k",
      ".", "q", "c", "o", "w", "2">>

\* How a path may begin: with nothing, with the zvol prefix, with the prefix
\* short of its last or first character, or with the prefix further inside.
PathHeads ==
    {<<>>, ZvolPrefix, SubSeq(ZvolPrefix, 1, Len(ZvolPrefix) - 1),
     SubSeq(ZvolPrefix, 2, Len(ZvolPrefix)), <<"x">> \o ZvolPrefix}

PathChars == {"/", "a", "."}

PathInputs ==
    {h \o t : h \in PathHeads, t \in SeqsUpTo(PathChars, MaxTail)}
        \cup {ExampleZvolPath, ExampleImagePath}

BackupIdle ==
    /\ domains = <<>>
    /\ BackupInit

VolumeInit ==
    /\ BackupIdle
    /\ LibvirtInit
    /\ RestIdle
    /\ vp_path \in PathInputs
    /\ vp_result = <<>>
    /\ vp_pc = "call"

\* One call of volume_from_disk_path.
VolumeFromDiskPath ==
    /\ vp_pc = "call"
    /\ vp_result' = volume_from_disk_path(vp_path)
    /\ vp_pc' = "done"
    /\ UNCHANGED <<vp_path, backupVars, libvirtVars, restVars>>

SpecVolume == VolumeInit /\ [][VolumeFromDiskPath]_vars

-----------------------------------------------------------------------------
\* The networks: define_network and destroy_net of infra/libvirt/libvirt.py,
\* destroy_net of the older libvirt.py.  A virsh command exits non-zero when
\* the network is not in the state the command needs, or when the environment
\* makes it fail (env = FALSE).

\* "virsh net-define": a network of that name must not exist.
VirshNetDefine(st, name, env) ==
    IF env /\ st[name] = "undefined"
    THEN [ok |-> TRUE, st |-> [st EXCEPT ![name] = "inactive"]]
    ELSE [ok |-> FALSE, st |-> st]

\* "virsh net-start": the network must be defined and not running.
VirshNetStart(st, name, env) ==
    IF env /\ st[name] = "inactive"
    THEN [ok |-> TRUE, st |-> [st EXCEPT ![name] = "active"]]
    ELSE [ok |-> FALSE, st |-> st]

\* "virsh net-autostart": the network must be persistent.
VirshNetAutostart(st, name, env) ==
    [ok |-> env /\ st[name] \in {"inactive", "active"}, st |-> st]

\* "virsh net-destroy": stops a running network; a transient one is gone.
VirshNetDestroy(st, name, env) ==
    IF env /\ st[name] = "active"
    THEN [ok |-> TRUE, st |-> [st EXCEPT ![name] = "inactive"]]
    ELSE IF env /\ st[name] = "transient"
         THEN [ok |-> TRUE, st |-> [st EXCEPT ![name] = "undefined"]]
         ELSE [ok |-> FALSE, st |-> st]

\* "virsh net-undefine": removes the configuration of a persistent network;
\* a running one goes on as a transient network.
VirshNetUndefine(st, name, env) ==
    IF env /\ st[name] = "inactive"
    THEN [ok |-> TRUE, st |-> [st EXCEPT ![name] = "undefined"]]
    ELSE IF env /\ st[name] = "active"
         THEN [ok |-> TRUE, st |-> [st EXCEPT ![name] = "transient"]]
         ELSE [ok |-> FALSE, st |-> st]

\* check_call outside any try block: a non-zero exit leaves the function.
AfterCheckCall(ok) == IF ok THEN "continue" ELSE "raise"

\* A destroy_net whose handlers let CalledProcessError through.
AfterTolerated_Raise(ok) == IF ok THEN "continue" ELSE "raise"

\* try: check_call(...) except CalledProcessError: pass
AfterTolerated(ok) == "continue"

\* define_network: net-define, net-start, net-autostart, each under
\* check_call.
DefineNetworkCall ==
    \E name \in NetNames, env1 \in BOOLEAN, env2 \in BOOLEAN,
       env3 \in BOOLEAN :
        LET r1 == VirshNetDefine(net_state, name, env1)
            r2 == VirshNetStart(r1.st, name, env2)
            r3 == VirshNetAutostart(r2.st, name, env3)
            go1 == AfterCheckCall(r1.ok)
            go2 == IF go1 = "continue" THEN AfterCheckCall(r2.ok) ELSE "raise"
            go3 == IF go2 = "continue" THEN AfterCheckCall(r3.ok) ELSE "raise"
        IN  /\ net_state' = (IF go1 = "continue" THEN r2.st ELSE r1.st)
            /\ net_cmds' =
                  <<Cmd("net-define", r1.ok)>>
                  \o (IF go1 = "continue" THEN <<Cmd("net-start", r2.ok)>>
                      ELSE <<>>)
                  \o (IF go2 = "continue" THEN <<Cmd("net-autostart", r3.ok)>>
                      ELSE <<>>)
            /\ net_last' = NetCall("define_network", name, net_state[name],
                                   IF go3 = "continue" THEN "returned"
                                   ELSE "raised")
            /\ UNCHANGED <<backupVars, volVars, libvirtVars, descVars,
                           tokenVars, iamVars, selVars,
                   copyVars>>

\* destroy_net (the same in both files): net-destroy, then net-undefine,
\* each in its own try block.
DestroyNet(op, name, env1, env2) ==
    LET r1 == VirshNetDestroy(net_state, name, env1)
        go1 == AfterTolerated(r1.ok)
        r2 == VirshNetUndefine(r1.st, name, env2)
        go2 == IF go1 = "continue" THEN AfterTolerated(r2.ok) ELSE "raise"
    IN  /\ net_state' = (IF go1 = "continue" THEN r2.st ELSE r1.st)
        /\ net_cmds' =
              <<Cmd("net-destroy", r1.ok)>>
              \o (IF go1 = "continue" THEN <<Cmd("net-undefine", r2.ok)>>
                  ELSE <<>>)
        /\ net_last' = NetCall(op, name, net_state[name],
                               IF go2 = "continue" THEN "returned"
                               ELSE "raised")

DestroyNetCall ==
    /\ \E name \in NetNames, env1 \in BOOLEAN, env2 \in BOOLEAN :
            DestroyNet("destroy_net", name, env1, env2)
    /\ UNCHANGED <<backupVars, volVars, libvirtVars, descVars, tokenVars,
                   iamVars, selVars,
                   copyVars>>

DestroyNetLegacyCall ==
    /\ \E name \in NetNames, env1 \in BOOLEAN, env2 \in BOOLEAN :
            DestroyNet("destroy_net_legacy", name, env1, env2)
    /\ UNCHANGED <<backupVars, volVars, libvirtVars, descVars, tokenVars,
                   iamVars, selVars,
                   copyVars>>

NetNext ==
    \/ DefineNetworkCall
    \/ DestroyNetCall
    \/ DestroyNetLegacyCall

NetInit ==
    /\ BackupIdle
    /\ VolIdle
    /\ LibvirtInit
    /\ RestIdle

SpecNet == NetInit /\ [][NetNext]_vars

-----------------------------------------------------------------------------
\* The descriptor create_domain renders: its <disk> and <boot> elements.

\* os.path.abspath(image)
AbsImage == <<0, 1>>

\* os.path.join(pool, f"{uuid}-config-drive.iso")
ConfigDrive(uuid) == <<uuid, -1>>

\* The letters chr(ord('a') + i) runs through, i = 0 .. 25.
Alphabet ==
    <<"a", "b", "c", "d", "e", "f", "g", "h", "i", "j", "k", "l", "m",
      "n", "o", "p", "q", "r", "s", "t", "u", "v", "w", "x", "y", "z">>

\* f"vd{chr(ord('a') + i)}"
DiskDevice(i) == <<"v", "d", Alphabet[i + 1]>>

\* A <disk> element of the descriptor: its target and its source file.
DiskEntry(dev, bus, source) == [dev |-> dev, bus |-> bus, source |-> source]

\* index: 0, and 1 once the image has been given the first entry.
ImageIndex(image) == IF image THEN 1 ELSE 0

\* An enumeration that counts from 0 whatever index is.
EnumerateFrom_Zero(j, index) == j - 1

\* The position enumerate(disks[index:], index) gives to its j-th element
\* (j from 1).
EnumerateFrom(j, index) == j - 1 + index

\* tgt_image_path: the image where it is, or its copy in the pool.
TgtImagePath(use_image_inplace) ==
    IF use_image_inplace THEN AbsImage ELSE PoolImage

\* disks_xml: the image as vda, one entry per created disk, the config drive
\* as a SATA cdrom.
DisksXml(uuid, ndisks, image, use_image_inplace, config_drive) ==
    (IF image
     THEN <<DiskEntry(<<"v", "d", "a">>, "virtio",
                      TgtImagePath(use_image_inplace))>>
     ELSE <<>>)
    \o [j \in 1..(ndisks - ImageIndex(image)) |->
          DiskEntry(DiskDevice(EnumerateFrom(j, ImageIndex(image))), "virtio",
                    NewDisk(uuid, EnumerateFrom(j, ImageIndex(image))))]
    \o (IF config_drive
        THEN <<DiskEntry(<<"s", "d", "a">>, "sata", ConfigDrive(uuid))>>
        ELSE <<>>)

\* boot: one <boot> element for "hd", network then hd otherwise.
BootXml(boot) == IF boot = "hd" THEN <<"hd">> ELSE <<"network", "hd">>

BootModes == {"hd", "network"}

DescInit ==
    /\ BackupIdle
    /\ VolIdle
    /\ LibvirtInit
    /\ NetIdle
    /\ TokenIdle
    /\ IamIdle
    /\ SelIdle
    /\ CopyIdle
    /\ dx_args \in [uuid : 1..MaxCreates, ndisks : 0..MaxNewDisks,
                    image : BOOLEAN, use_image_inplace : BOOLEAN,
                    config_drive : BOOLEAN, boot : BootModes]
    /\ dx_xml = <<>>
    /\ dx_boot = <<>>
    /\ dx_pc = "call"

\* create_domain up to domain_template.format(...): ValueError without
\* disks, the rendered elements otherwise.
RenderDescriptor ==
    /\ dx_pc = "call"
    /\ IF dx_args.ndisks = 0
       THEN /\ dx_pc' = "raised"
            /\ UNCHANGED <<dx_xml, dx_boot>>
       ELSE /\ dx_pc' = "rendered"
            /\ dx_xml' = DisksXml(dx_args.uuid, dx_args.ndisks, dx_args.image,
                                  dx_args.use_image_inplace,
                                  dx_args.config_drive)
            /\ dx_boot' = BootXml(dx_args.boot)
    /\ UNCHANGED <<dx_args, backupVars, volVars, libvirtVars, netVars,
                   tokenVars, iamVars, selVars,
                   copyVars>>

SpecDescriptor == DescInit /\ [][RenderDescriptor]_vars

LibvirtSpecInit ==
    /\ BackupIdle
    /\ VolIdle
    /\ LibvirtInit
    /\ RestIdle

SpecLibvirt == LibvirtSpecInit /\ [][LibvirtNext]_vars

-----------------------------------------------------------------------------
\* Token.save of clients/iam.py, one step per system call, for two processes
\* that save their tokens into the same project directory.

\* 0o600, the mode save sets.
Mode600 == "0o600"

\* The mode of a file open(..., "w") creates, and of a file left by others.
Mode644 == "0o644"

\* The file, its mode and its directory before the first save.
TokenFiles ==
    {<<"absent", "none", FALSE>>, <<"absent", "none", TRUE>>,
     <<"old", Mode600, TRUE>>, <<"old", Mode644, TRUE>>}

TokenInit ==
    /\ BackupIdle
    /\ VolIdle
    /\ LibvirtInit
    /\ DescIdle
    /\ NetIdle
    /\ IamIdle
    /\ SelIdle
    /\ CopyIdle
    /\ \E f \in TokenFiles :
          /\ tk_file = f[1]
          /\ tk_mode = f[2]
          /\ tk_dir = f[3]
    /\ tk_pc = [p \in Procs |-> "exists"]
    /\ tk_force \in [Procs -> BOOLEAN]
    /\ tk_seen = [p \in Procs |-> "unchecked"]
    /\ tk_log = <<>>

\* A step of save that touches the file: who, which step, the file before
\* and after it, and the mode before it.
TokenStep(p, step, before, after, mode) ==
    [proc |-> p, step |-> step, before |-> before, after |-> after,
     mode |-> mode]

\* A save that never looks at the file.
SaveAllowed_Always(exists, force) == TRUE

\* if os.path.exists(auth_file) and not force: raise
SaveAllowed(exists, force) == ~(exists /\ ~force)

\* The existence check of save.
SaveExists ==
    \E p \in Procs :
      /\ tk_pc[p] = "exists"
      /\ tk_seen' = [tk_seen EXCEPT ![p] = tk_file]
      /\ tk_pc' = [tk_pc EXCEPT ![p] =
                      IF SaveAllowed(tk_file # "absent", tk_force[p])
                      THEN "makedirs" ELSE "raised"]
      /\ UNCHANGED <<tk_file, tk_mode, tk_dir, tk_force, tk_log>>
      /\ UNCHANGED <<backupVars, volVars, libvirtVars, descVars, netVars,
                     iamVars, selVars,
                   copyVars>>

\* os.makedirs(auth_dir, exist_ok=True)
SaveMakedirs ==
    \E p \in Procs :
      /\ tk_pc[p] = "makedirs"
      /\ tk_dir' = TRUE
      /\ tk_pc' = [tk_pc EXCEPT ![p] = "open"]
      /\ UNCHANGED <<tk_file, tk_mode, tk_force, tk_seen, tk_log>>
      /\ UNCHANGED <<backupVars, volVars, libvirtVars, descVars, netVars,
                     iamVars, selVars,
                   copyVars>>

\* open(auth_file, "w"): creates the file, or truncates the one that is
\* there and keeps its mode.
SaveOpen ==
    \E p \in Procs :
      /\ tk_pc[p] = "open"
      /\ tk_file' = "empty"
      /\ tk_mode' = (IF tk_file = "absent" THEN Mode644 ELSE tk_mode)
      /\ tk_log' = Append(tk_log, TokenStep(p, "open", tk_file, "empty", tk_mode))
      /\ tk_pc' = [tk_pc EXCEPT ![p] = "dump"]
      /\ UNCHANGED <<tk_dir, tk_force, tk_seen>>
      /\ UNCHANGED <<backupVars, volVars, libvirtVars, descVars, netVars,
                     iamVars, selVars,
                   copyVars>>

\* A dump that writes nothing.
ContentAfterDump_Kept(p, content) == content

\* json.dump(self.to_dict(), f): the file holds the token of the process.
ContentAfterDump(p, content) == p

\* json.dump and the end of the with block.
SaveDump ==
    \E p \in Procs :
      /\ tk_pc[p] = "dump"
      /\ tk_file' = ContentAfterDump(p, tk_file)
      /\ tk_log' = Append(tk_log, TokenStep(p, "dump", tk_file, tk_file', tk_mode))
      /\ tk_pc' = [tk_pc EXCEPT ![p] = "chmod"]
      /\ UNCHANGED <<tk_mode, tk_dir, tk_force, tk_seen>>
      /\ UNCHANGED <<backupVars, volVars, libvirtVars, descVars, netVars,
                     iamVars, selVars,
                   copyVars>>

\* A save that leaves the mode as it is.
ModeAfterChmod_Kept(mode) == mode

\* os.chmod(auth_file, 0o600)
ModeAfterChmod(mode) == Mode600

\* os.chmod and the return of save.
SaveChmod ==
    \E p \in Procs :
      /\ tk_pc[p] = "chmod"
      /\ tk_mode' = ModeAfterChmod(tk_mode)
      /\ tk_pc' = [tk_pc EXCEPT ![p] = "returned"]
      /\ UNCHANGED <<tk_file, tk_dir, tk_force, tk_seen, tk_log>>
      /\ UNCHANGED <<backupVars, volVars, libvirtVars, descVars, netVars,
                     iamVars, selVars,
                   copyVars>>

TokenNext ==
    \/ SaveExists
    \/ SaveMakedirs
    \/ SaveOpen
    \/ SaveDump
    \/ SaveChmod

SpecToken == TokenInit /\ [][TokenNext]_vars

-----------------------------------------------------------------------------
\* IAMClient of clients/iam.py: _request_json, _extract_tokens,
\* get_token_by_password, refresh and me.  A message is the sequence of the
\* fragments its f-string joins.

\* str(n) of a natural number: its decimal digits.
RECURSIVE Str(_)
Str(n) ==
    LET digits == <<"0", "1", "2", "3", "4", "5", "6", "7", "8", "9">>
    IN  IF n < 10 THEN <<digits[n + 1]>>
        ELSE Str(n \div 10) \o <<digits[(n % 10) + 1]>>

\* self._iam_client_endpoint
IamUrl == "https://iam.example"

\* token_endpoint and me_endpoint
token_endpoint == <<IamUrl, "/actions/get_token/invoke">>
me_endpoint == <<IamUrl, "/actions/me">>

ProjectId == "project"

\* response.ok
ResponseOk(status_code) == status_code < 400

Statuses == {200, 401, 500}

TokenFields == {"access_token", "refresh_token"}

\* The bodies of a response: text that is not JSON, a JSON array, and JSON
\* objects with any of the two fields.
Bodies ==
    {<<FALSE, FALSE, {}, "<html>">>, <<TRUE, FALSE, {}, "[]">>}
        \cup {<<TRUE, TRUE, f, "{...}">> : f \in SUBSET TokenFields}

Replies ==
    {Reply(FALSE, 0, FALSE, FALSE, {}, "connection refused")}
        \cup {Reply(TRUE, st, b[1], b[2], b[3], b[4]) :
                st \in Statuses, b \in Bodies}

Ttls == {0, 60}
Scopes == {"", "project:admin"}

IamCalls == {"get_token_by_password", "refresh", "me"}

IamInit ==
    /\ BackupIdle
    /\ VolIdle
    /\ LibvirtInit
    /\ DescIdle
    /\ NetIdle
    /\ TokenIdle
    /\ SelIdle
    /\ CopyIdle
    /\ iam_call \in IamCalls
    /\ iam_client \in [ttl : Ttls, scope : {"project:default"}]
    /\ iam_token \in {Token(IamUrl, ProjectId, "at-old", "rt-old", t, sc) :
                        t \in Ttls, sc \in Scopes}
    /\ iam_ttl \in {<<>>} \cup {<<t>> : t \in Ttls}
    /\ iam_scope \in {<<>>} \cup {<<sc>> : sc \in Scopes}
    /\ iam_reply \in Replies
    /\ iam_request = NoRequest
    /\ iam_result = Outcome("none", <<>>, NoToken)
    /\ iam_pc = "call"

IAMClientError(msg) == Outcome("IAMClientError", msg, NoToken)

\* A message for a non-success status that leaves the body out.
StatusMessage_NoBody(error_prefix, status_code, text) ==
    <<error_prefix, " (">> \o Str(status_code) \o <<")">>

\* f"{error_prefix} ({response.status_code}): {response.text}"
StatusMessage(error_prefix, status_code, text) ==
    <<error_prefix, " (">> \o Str(status_code) \o <<"): ", text>>

\* _request_json: the payload, or IAMClientError for an exception of
\* requests, a status that is not ok, a body that is not JSON.
request_json(reply, error_prefix) ==
    IF ~reply.transport
    THEN IAMClientError(<<"Unable to call IAM endpoint: ", reply.text>>)
    ELSE IF ~ResponseOk(reply.status)
         THEN IAMClientError(StatusMessage(error_prefix, reply.status,
                                           reply.text))
         ELSE IF ~reply.json
              THEN IAMClientError(<<"IAM returned non-JSON response">>)
              ELSE Outcome("payload", <<>>, NoToken)

\* A KeyError that does not say which key.
KeyErrorText_Blank(key) == <<>>

\* str(KeyError(key))
KeyErrorText(key) == <<"'", key, "'">>

\* _extract_tokens: access_token is read first, then refresh_token; a
\* payload that is no object raises TypeError.
extract_tokens(reply) ==
    IF ~reply.object
    THEN Outcome("TypeError", <<>>, NoToken)
    ELSE IF "access_token" \notin reply.fields
         THEN IAMClientError(<<"IAM response missing field: ">>
                             \o KeyErrorText("access_token"))
         ELSE IF "refresh_token" \notin reply.fields
              THEN IAMClientError(<<"IAM response missing field: ">>
                                  \o KeyErrorText("refresh_token"))
              ELSE Outcome("tokens", <<>>, NoToken)

\* _request_json, then _extract_tokens, then the Token with this ttl and
\* scope.
TokenCall(reply, error_prefix, ttl, scope) ==
    LET payload == request_json(reply, error_prefix)
        tokens == extract_tokens(reply)
    IN  IF payload.kind # "payload" THEN payload
        ELSE IF tokens.kind # "tokens" THEN tokens
             ELSE Outcome("Token", <<>>,
                          Token(IamUrl, ProjectId, "at-new", "rt-new", ttl,
                                scope))

\* A refresh that always takes the value of the prior token.
Effective_Prior(given, prior) == prior

\* token.ttl if ttl is None else ttl (and the same for scope)
Effective(given, prior) == IF given = <<>> THEN prior ELSE given[1]

GetTokenByPassword ==
    /\ iam_pc = "call"
    /\ iam_call = "get_token_by_password"
    /\ iam_request' =
          [method |-> "POST", url |-> token_endpoint,
           grant_type |-> "password", ttl |-> Str(iam_client.ttl),
           scope |-> iam_client.scope]
    /\ iam_result' = TokenCall(iam_reply, "IAM authentication failed",
                               iam_client.ttl, iam_client.scope)
    /\ iam_pc' = "done"
    /\ UNCHANGED <<iam_call, iam_client, iam_token, iam_ttl, iam_scope,
                   iam_reply>>
    /\ UNCHANGED <<backupVars, volVars, libvirtVars, descVars, netVars,
                   tokenVars, selVars,
                   copyVars>>

Refresh ==
    /\ iam_pc = "call"
    /\ iam_call = "refresh"
    /\ LET effective_ttl == Effective(iam_ttl, iam_token.ttl)
           effective_scope == Effective(iam_scope, iam_token.scope)
       IN  /\ iam_request' =
                 [method |-> "POST", url |-> token_endpoint,
                  grant_type |-> "refresh_token",
                  ttl |-> Str(effective_ttl), scope |-> effective_scope]
           /\ iam_result' = TokenCall(iam_reply, "IAM refresh failed",
                                      effective_ttl, effective_scope)
    /\ iam_pc' = "done"
    /\ UNCHANGED <<iam_call, iam_client, iam_token, iam_ttl, iam_scope,
                   iam_reply>>
    /\ UNCHANGED <<backupVars, volVars, libvirtVars, descVars, netVars,
                   tokenVars, selVars,
                   copyVars>>

Me ==
    /\ iam_pc = "call"
    /\ iam_call = "me"
    /\ iam_request' =
          [method |-> "GET", url |-> me_endpoint, grant_type |-> "",
           ttl |-> <<>>, scope |-> ""]
    /\ iam_result' = request_json(iam_reply, "IAM token validation failed")
    /\ iam_pc' = "done"
    /\ UNCHANGED <<iam_call, iam_client, iam_token, iam_ttl, iam_scope,
                   iam_reply>>
    /\ UNCHANGED <<backupVars, volVars, libvirtVars, descVars, netVars,
                   tokenVars, selVars,
                   copyVars>>

IamNext ==
    \/ GetTokenByPassword
    \/ Refresh
    \/ Me

SpecIam == IamInit /\ [][IamNext]_vars

-----------------------------------------------------------------------------
\* _domains_for_backup of cmd/cli.py, with the names and patterns of
\* tests/unit/test_domains_for_backup.py.  Names and patterns are sequences
\* of characters.

Vm1 == <<"v", "m", "1">>
Vm2 == <<"v", "m", "2">>
Stand01 == <<"s", "t", "a", "n", "d", "-", "0", "1">>
Stand02 == <<"s", "t", "a", "n", "d", "-", "0", "2">>

\* "stand-*", and two more patterns: "vm?" and "*-02".
StandStar == <<"s", "t", "a", "n", "d", "-", "*">>
VmAny == <<"v", "m", "?">>
Star02 == <<"*", "-", "0", "2">>

\* The domains of the test, in its order, and its patterns.
TestDomains == <<Vm1, Vm2, Stand01, Stand02>>
TestExclude == <<Vm2, StandStar>>

ExcludePatterns == <<Vm2, StandStar, VmAny, Star02>>

\* The elements of seq that are in S, in the order of seq.
Among(seq, S) == SelectSeq(seq, LAMBDA x : x \in S)

\* A matching that knows no wildcard.
fnmatch_Exact(name, pat) == name = pat

\* Shell-style matching of a whole name: "*" stands for any characters,
\* "?" for one.
RECURSIVE fnmatch(_, _)
fnmatch(name, pat) ==
    IF pat = <<>> THEN name = <<>>
    ELSE IF Head(pat) = "*"
         THEN \/ fnmatch(name, Tail(pat))
              \/ name # <<>> /\ fnmatch(Tail(name), pat)
         ELSE /\ name # <<>>
              /\ Head(pat) = "?" \/ Head(pat) = Head(name)
              /\ fnmatch(Tail(name), Tail(pat))

\* A name is excluded when one of the patterns matches it.
Excluded(name, exclude) ==
    \E j \in DOMAIN exclude : fnmatch(name, exclude[j])

\* _domains_for_backup: the requested names the hypervisor has and no
\* pattern excludes, in the order they were requested.
domains_for_backup(requested, exclude, all_domains) ==
    SelectSeq(requested,
              LAMBDA name : name \in all_domains /\ ~Excluded(name, exclude))

SelInit ==
    /\ BackupIdle
    /\ VolIdle
    /\ LibvirtInit
    /\ DescIdle
    /\ NetIdle
    /\ TokenIdle
    /\ IamIdle
    /\ CopyIdle
    /\ sel_domains \in {Among(TestDomains, S) : S \in SUBSET Range(TestDomains)}
    /\ sel_exclude \in
          {Among(ExcludePatterns, S) : S \in SUBSET Range(ExcludePatterns)}
    /\ sel_all \in SUBSET Range(TestDomains)
    /\ sel_result = <<>>
    /\ sel_pc = "call"

DomainsForBackup ==
    /\ sel_pc = "call"
    /\ sel_result' = domains_for_backup(sel_domains, sel_exclude, sel_all)
    /\ sel_pc' = "done"
    /\ UNCHANGED <<sel_domains, sel_exclude, sel_all>>
    /\ UNCHANGED <<backupVars, volVars, libvirtVars, descVars, netVars,
                   tokenVars, iamVars, copyVars>>

SpecSelect == SelInit /\ [][DomainsForBackup]_vars

-----------------------------------------------------------------------------
\* backup_domain of infra/libvirt/libvirt.py: the descriptor and the disks of
\* one domain are copied into backup_path; an active domain is suspended
\* for the copy.

\* One call for a domain that is undefined, shut off, running or paused and
\* has up to MaxNewDisks disks.
CopyInit ==
    /\ BackupIdle
    /\ VolIdle
    /\ DescIdle
    /\ NetIdle
    /\ TokenIdle
    /\ IamIdle
    /\ SelIdle
    /\ bd_name \in LvNames
    /\ \E st \in {"undefined", "shutoff", "running", "paused"},
          n \in 0..MaxNewDisks :
          /\ lv_state = [m \in LvNames |->
                            IF m = bd_name THEN st ELSE "undefined"]
          /\ lv_disks = [m \in LvNames |->
                            IF m = bd_name /\ st # "undefined"
                            THEN [j \in 1..n |-> NewDisk(1, j - 1)]
                            ELSE <<>>]
          /\ lv_files = {NewDisk(1, j - 1) : j \in 1..n}
    /\ lv_uuid = 1
    /\ lv_last = AdapterCall("none", "none", FALSE, "none",
                             <<[m \in LvNames |-> "undefined"],
                               [m \in LvNames |-> <<>>], {}>>)
    /\ lv_prev = lv_last
    /\ lv_cmds = <<>>
    /\ bd_pc = "call"
    /\ bd_cmds = <<>>
    /\ bd_k = 1
    /\ bd_raising = FALSE

\* A suspend and a copy loop outside any try block: a failure leaves
\* backup_domain at once.
AfterTryStep_NoFinally(ok, j, n, active) ==
    IF ~ok THEN "raised"
    ELSE IF j <= n THEN "cp"
    ELSE IF active THEN "resume" ELSE "returned"

\* Where backup_domain goes after "virsh suspend" or a cp, j being the
\* position of the next disk of n: to the next cp, and at the end of the
\* loop or on a failure to the finally block (active domain) or out of
\* backup_domain (inactive domain, no try block).
AfterTryStep(ok, j, n, active) ==
    IF ~ok THEN (IF active THEN "resume" ELSE "raised")
    ELSE IF j <= n THEN "cp"
    ELSE IF active THEN "resume" ELSE "returned"

\* get_domain_disks, "virsh dumpxml", the write of domain.xml and
\* is_active_domain. dumpxml exits non-zero for a domain that is not
\* defined; open() may fail (backup_path missing or not writable).
BackupDomainStart ==
    /\ bd_pc = "call"
    /\ IF ~VirshDumpxmlOk(lv_state, bd_name)
       THEN /\ bd_cmds' = <<Cmd("virsh dumpxml", FALSE)>>
            /\ bd_pc' = "raised"
       ELSE \E write_ok \in BOOLEAN :
            /\ bd_cmds' =
                  <<Cmd("virsh dumpxml", TRUE), Cmd("virsh dumpxml", TRUE),
                    Cmd("domain.xml", write_ok)>>
                  \o (IF write_ok THEN <<Cmd("virsh list --inactive", TRUE)>>
                      ELSE <<>>)
            /\ bd_pc' =
                  IF ~write_ok THEN "raised"
                  ELSE IF is_active_domain(lv_state, bd_name) THEN "suspend"
                  ELSE AfterTryStep(TRUE, 1, Len(lv_disks[bd_name]), FALSE)
    /\ UNCHANGED <<bd_name, bd_k, bd_raising>>
    /\ UNCHANGED <<backupVars, volVars, libvirtVars, descVars, netVars,
                   tokenVars, iamVars, selVars>>

\* "virsh suspend name", the first statement of the try block.
Suspend ==
    /\ bd_pc = "suspend"
    /\ \E ok \in BOOLEAN :
        /\ bd_cmds' = Append(bd_cmds, Cmd("virsh suspend", ok))
        /\ lv_state' = IF ok THEN [lv_state EXCEPT ![bd_name] = "paused"]
                       ELSE lv_state
        /\ bd_raising' = ~ok
        /\ bd_pc' = AfterTryStep(ok, 1, Len(lv_disks[bd_name]), TRUE)
    /\ UNCHANGED <<bd_name, bd_k>>
    /\ UNCHANGED <<lv_disks, lv_files, lv_uuid, lv_last, lv_prev, lv_cmds>>
    /\ UNCHANGED <<backupVars, volVars, descVars, netVars, tokenVars,
                   iamVars, selVars>>

\* "cp disk backup_path/basename(disk)" for the disk at position bd_k, in
\* either branch.
CopyDisk ==
    /\ bd_pc = "cp"
    /\ \E ok \in BOOLEAN :
        /\ bd_cmds' = Append(bd_cmds, Cmd("cp", ok))
        /\ bd_raising' = ~ok
        /\ bd_pc' = AfterTryStep(ok, bd_k + 1, Len(lv_disks[bd_name]),
                                 is_active_domain(lv_state, bd_name))
    /\ bd_k' = bd_k + 1
    /\ UNCHANGED bd_name
    /\ UNCHANGED <<backupVars, volVars, libvirtVars, descVars, netVars,
                   tokenVars, iamVars, selVars>>

\* The finally block: "virsh resume name"; its failure, or the exception in
\* flight, leaves backup_domain.
Resume ==
    /\ bd_pc = "resume"
    /\ \E ok \in BOOLEAN :
        /\ bd_cmds' = Append(bd_cmds, Cmd("virsh resume", ok))
        /\ lv_state' = IF ok THEN [lv_state EXCEPT ![bd_name] = "running"]
                       ELSE lv_state
        /\ bd_pc' = IF ok /\ ~bd_raising THEN "returned" ELSE "raised"
    /\ UNCHANGED <<bd_name, bd_k, bd_raising>>
    /\ UNCHANGED <<lv_disks, lv_files, lv_uuid, lv_last, lv_prev, lv_cmds>>
    /\ UNCHANGED <<backupVars, volVars, descVars, netVars, tokenVars,
                   iamVars, selVars>>

CopyNext ==
    \/ BackupDomainStart
    \/ Suspend
    \/ CopyDisk
    \/ Resume

SpecBackupCopy == CopyInit /\ [][CopyNext]_vars

-----------------------------------------------------------------------------
\* The calls of the running (or last) invocation of _backup_domain.

CallIdx(op) == {j \in DOMAIN calls : calls[j].op = op}
OkIdx(op) == {j \in CallIdx(op) : calls[j].ok}
FailedIdx(op) == {j \in CallIdx(op) : ~calls[j].ok}

\* _backup_domain has returned or raised.
Ended == pc \in {"returned", "raised"}

VolumeNames == {volume_from_disk_path(d) : d \in DiskPaths}

\* C1: teardown symmetry. When _backup_domain has returned or raised,
\* destroy_snapshot has been attempted for every volume as many times as
\* create_snapshot succeeded for it (once per snapshot), hence never for a
\* volume whose create_snapshot failed or was not attempted, also when the
\* disk export raised.
C1_TeardownSymmetry ==
    Ended =>
        \A v \in VolumeNames :
            Cardinality({j \in CallIdx("destroy_snapshot") : calls[j].vol = v})
              = Cardinality({j \in OkIdx("create_snapshot") : calls[j].vol = v})

\* The disk export raised after two snapshots were created.
C1_Witness ==
    /\ pc = "raised"
    /\ FailedIdx("backup_domain_disks") # {}
    /\ Cardinality(OkIdx("create_snapshot")) = 2
    /\ Cardinality(CallIdx("destroy_snapshot")) = 2

\* get_domain_disks of the running invocation returned an empty list.
ZeroDisks == OkIdx("get_domain_disks") # {} /\ disks = <<>>

\* C2: a domain without disks gets a row with status "failed" and size "0";
\* its backup does not raise and calls none of create_snapshot,
\* destroy_snapshot, backup_domain_disks and volume_used_bytes.
C2_ZeroDisks ==
    ZeroDisks =>
        /\ pc \in {"returned", "loop", "done"}
        /\ result.domain = domain
        /\ result.status = "failed"
        /\ result.size = <<"0">>
        /\ CallIdx("create_snapshot") = {}
        /\ CallIdx("destroy_snapshot") = {}
        /\ CallIdx("backup_domain_disks") = {}
        /\ CallIdx("volume_used_bytes") = {}
        /\ pc \in {"loop", "done"} =>
              /\ outcomes[Len(outcomes)] = "returned"
              /\ table[Len(table)] = result

\* The row of a domain without disks has been added to the table.
C2_Witness ==
    /\ ZeroDisks
    /\ pc = "loop"
    /\ Len(table) = 1

\* C3: per-domain isolation. _backup_domain is invoked once for every domain
\* of the input, in input order, whatever an earlier invocation raised; the
\* failure never leaves backup_domains, which ends only after the summary,
\* logged after the last domain.
C3_Isolation ==
    /\ pc # "aborted"
    /\ Len(attempted) <= Len(domains)
    /\ attempted = SubSeq(domains, 1, Len(attempted))
    /\ Len(attempted) = (IF pc \in {"loop", "done"} THEN idx - 1 ELSE idx)
    /\ summary <=> pc = "done"
    /\ pc = "done" => attempted = domains
    /\ pc # "done" => ENABLED Next

\* The first domain raised and the second was still backed up.
C3_Witness ==
    /\ pc = "done"
    /\ Len(domains) = 2
    /\ outcomes = <<"raised", "returned">>

\* C4: a failing destroy_snapshot is isolated. Once the finally block is
\* left, destroy_snapshot has been attempted once for every snapshot, in
\* order, whichever attempts failed; _backup_domain raises only when a call
\* other than destroy_snapshot and volume_used_bytes failed, and the status it
\* returns is "success" when the disk export returned.
C4_TeardownIsolation ==
    /\ (Ended /\ CallIdx("get_domain_disks") # {} /\ Len(disks) > 0) =>
          /\ \A p \in 1..Len(volumes_with_snapshots) :
                Cardinality({j \in CallIdx("destroy_snapshot") :
                    /\ calls[j].pos = p
                    /\ calls[j].vol = volumes_with_snapshots[p]}) = 1
          /\ Cardinality(CallIdx("destroy_snapshot"))
                = Len(volumes_with_snapshots)
    /\ Ended =>
          (pc = "raised" <=>
              \E j \in DOMAIN calls :
                  /\ ~calls[j].ok
                  /\ calls[j].op \notin
                        {"destroy_snapshot", "volume_used_bytes"})
    /\ (pc = "returned" /\ OkIdx("backup_domain_disks") # {}) =>
          result.status = "success"

\* The first of two teardowns failed, the second was attempted, and the
\* domain is reported as a success.
C4_Witness ==
    /\ pc = "returned"
    /\ result.status = "success"
    /\ \E j \in FailedIdx("destroy_snapshot") : calls[j].pos = 1
    /\ \E j \in CallIdx("destroy_snapshot") : calls[j].pos = 2

\* _backup_domain resolved at least one volume.
HasVolumes == OkIdx("get_domain_disks") # {} /\ Len(disks) > 0

\* C5 as stated: for a domain with at least one disk, create_snapshot is
\* attempted for every resolved volume, a failed attempt notwithstanding, and
\* the disk export then runs with the full list of volumes.
C5_AllAttemptedThenExport ==
    (Ended /\ HasVolumes) =>
        /\ \A p \in 1..Len(volumes) :
              \E j \in CallIdx("create_snapshot") : calls[j].pos = p
        /\ \E j \in CallIdx("backup_domain_disks") : calls[j].vol = volumes

\* C5, amended: create_snapshot is attempted for the resolved volumes in list
\* order until an attempt fails; a failed attempt is the last one and the disk
\* export is then not run. The disk export runs once, after create_snapshot
\* has succeeded for every resolved volume, and receives the full list of
\* resolved volumes.
C5_AttemptsStopAtFirstFailure ==
    /\ \A j \in CallIdx("create_snapshot") :
          /\ calls[j].vol = volumes[calls[j].pos]
          /\ calls[j].pos =
                Cardinality({h \in CallIdx("create_snapshot") : h <= j})
          /\ ~calls[j].ok =>
                \A h \in DOMAIN calls :
                    h > j => calls[h].op \notin
                                {"create_snapshot", "backup_domain_disks"}
    /\ \A j \in CallIdx("backup_domain_disks") :
          /\ calls[j].vol = volumes
          /\ \A p \in 1..Len(volumes) :
                \E h \in OkIdx("create_snapshot") : h < j /\ calls[h].pos = p
    /\ Cardinality(CallIdx("backup_domain_disks")) <= 1
    /\ (Ended /\ HasVolumes) =>
          /\ CallIdx("create_snapshot") # {}
          /\ FailedIdx("create_snapshot") = {} =>
                CallIdx("backup_domain_disks") # {}

\* The first of two volumes failed to snapshot: the second was not attempted
\* and nothing was exported.
C5_Witness ==
    /\ pc = "raised"
    /\ Len(volumes) = 2
    /\ \E j \in FailedIdx("create_snapshot") : calls[j].pos = 1
    /\ Cardinality(CallIdx("create_snapshot")) = 1
    /\ CallIdx("backup_domain_disks") = {}

\* The domains of the first n invocations that returned, in order.
RECURSIVE ReturnedDomains(_)
ReturnedDomains(n) ==
    IF n = 0 THEN <<>>
    ELSE IF outcomes[n] = "returned"
         THEN Append(ReturnedDomains(n - 1), attempted[n])
         ELSE ReturnedDomains(n - 1)

\* C6: the summary table holds one row for every input domain whose backup
\* returned, in input order, and none for a domain whose backup raised.
C6_SummaryRows ==
    /\ Len(outcomes) <= Len(attempted)
    /\ [j \in 1..Len(table) |-> table[j].domain]
          = ReturnedDomains(Len(outcomes))
    /\ pc = "done" => Len(outcomes) = Len(domains)

\* Two different domains, the first returned and the second raised: one row.
C6_Witness ==
    /\ pc = "done"
    /\ Len(domains) = 2
    /\ domains[1] # domains[2]
    /\ outcomes = <<"returned", "raised">>
    /\ Len(table) = 1

\* An invocation of _backup_domain has returned and its calls are on record.
Returned ==
    \/ pc = "returned"
    \/ /\ pc \in {"loop", "done"}
       /\ Len(outcomes) > 0
       /\ outcomes[Len(outcomes)] = "returned"

\* C7: the status of a row is "success" only if backup_domain_disks was
\* called and returned after create_snapshot had succeeded for every volume of
\* the domain; every other row has status "failed"; a status is one of the
\* two.
C7_FinalStatus ==
    /\ \A j \in 1..Len(table) : table[j].status \in {"success", "failed"}
    /\ (Returned /\ pc # "returned") => table[Len(table)] = result
    /\ Returned =>
          \/ /\ result.status = "success"
             /\ \E j \in OkIdx("backup_domain_disks") :
                   \A p \in 1..Len(volumes) :
                       \E h \in OkIdx("create_snapshot") :
                           h < j /\ calls[h].pos = p
          \/ /\ result.status = "failed"
             /\ OkIdx("backup_domain_disks") = {}

\* A domain with two volumes is reported as a success.
C7_Witness ==
    /\ pc = "returned"
    /\ result.status = "success"
    /\ Len(volumes) = 2

\* The sum of what the first n calls of volume_used_bytes returned.
RECURSIVE UsedSum(_)
UsedSum(n) ==
    IF n = 0 THEN 0
    ELSE UsedSum(n - 1)
           + (IF calls[n].op = "volume_used_bytes" /\ calls[n].ok
              THEN calls[n].val ELSE 0)

\* C8: the size of a domain with volumes is the formatted sum of what
\* volume_used_bytes returned for the volumes whose query succeeded; every
\* volume is queried once, in order, whichever queries failed; a failing query
\* never makes _backup_domain raise and leaves the status alone.
C8_SizeComputation ==
    /\ (pc = "returned" /\ HasVolumes) =>
          /\ result.size = human_readable_size(UsedSum(Len(calls)))
          /\ \A p \in 1..Len(volumes) :
                Cardinality({j \in CallIdx("volume_used_bytes") :
                    calls[j].pos = p /\ calls[j].vol = volumes[p]}) = 1
          /\ Cardinality(CallIdx("volume_used_bytes")) = Len(volumes)
          /\ result.status = "success"
    /\ CallIdx("volume_used_bytes") # {} => pc # "raised"

\* The first query failed, the second returned, and the domain was reported.
C8_Witness ==
    /\ pc = "returned"
    /\ result.status = "success"
    /\ \E j \in FailedIdx("volume_used_bytes") : calls[j].pos = 1
    /\ \E j \in OkIdx("volume_used_bytes") : calls[j].pos = 2

\* The path begins with the ten characters /dev/zvol/.
HasZvolPrefix(p) ==
    /\ Len(p) >= 10
    /\ <<p[1], p[2], p[3], p[4], p[5], p[6], p[7], p[8], p[9], p[10]>>
          = <<"/", "d", "e", "v", "/", "z", "v", "o", "l", "/">>

\* r is the final component of p: what follows the last "/" of p.
IsFinalComponent(p, r) ==
    /\ \A j \in DOMAIN r : r[j] # "/"
    /\ \E n \in 0..Len(p) :
          /\ SubSeq(p, n + 1, Len(p)) = r
          /\ n = 0 \/ p[n] = "/"

\* C9: volume_from_disk_path of a path that begins with /dev/zvol/ is the path
\* without that prefix, and of any other path its final component (what
\* follows its last "/"); /dev/zvol/pool/child gives pool/child and
\* /var/lib/libvirt/images/disk.qcow2 gives disk.qcow2.
C9_VolumeFromDiskPath ==
    vp_pc = "done" =>
        /\ HasZvolPrefix(vp_path) =>
              <<"/", "d", "e", "v", "/", "z", "v", "o", "l", "/">> \o vp_result
                  = vp_path
        /\ ~HasZvolPrefix(vp_path) => IsFinalComponent(vp_path, vp_result)
        /\ vp_path = ExampleZvolPath =>
              vp_result = <<"p", "o", "o", "l", "/", "c", "h", "i", "l", "d">>
        /\ vp_path = ExampleImagePath =>
              vp_result = <<"d", "i", "s", "k", ".", "q", "c", "o", "w", "2">>

\* A zvol path with a pool and a child has been derived.
C9_Witness ==
    /\ vp_pc = "done"
    /\ HasZvolPrefix(vp_path)
    /\ \E j \in DOMAIN vp_result : vp_result[j] = "/"
    /\ Len(vp_result) >= 3

DestroyOps == {"destroy_domain", "destroy_domain_legacy"}

\* C10: destroy_domain of a domain that is not defined does not raise, and a
\* second destroy_domain of the same name right after a first does not raise
\* and leaves the hypervisor and the pool as the first left them.
C10_IdempotentDestroy ==
    /\ (lv_last.op \in DestroyOps /\ lv_last.absent) =>
          lv_last.result = "returned"
    /\ (lv_last.op \in DestroyOps /\ lv_prev.op = lv_last.op
          /\ lv_prev.name = lv_last.name) =>
          /\ lv_last.result = "returned"
          /\ lv_last.after = lv_prev.after

-----------------------------------------------------------------------------
\* The libvirt adapters' networks and create_domain.

DestroyNetOps == {"destroy_net", "destroy_net_legacy"}

\* C11: destroy_net tolerates a network that is already stopped, undefined
\* or absent. Whatever net-destroy and net-undefine answer, destroy_net
\* returns without raising, and net-undefine is attempted after net-destroy
\* even when net-destroy exited non-zero.
C11_DestroyNetTolerant ==
    net_last.op \in DestroyNetOps =>
        /\ net_last.result = "returned"
        /\ Len(net_cmds) = 2
        /\ net_cmds[1].cmd = "net-destroy"
        /\ net_cmds[2].cmd = "net-undefine"

\* destroy_net of a network that does not exist: both commands failed.
C11_Witness ==
    /\ net_last.op = "destroy_net"
    /\ net_last.before = "undefined"
    /\ net_last.result = "returned"
    /\ Len(net_cmds) = 2
    /\ ~net_cmds[1].ok
    /\ ~net_cmds[2].ok

\* "virsh define" or "virsh start" of the last create_domain exited non-zero.
DefineOrStartFailed ==
    /\ lv_last.op = "create_domain"
    /\ \E j \in DOMAIN lv_cmds :
          /\ lv_cmds[j].cmd \in {"virsh define", "virsh start"}
          /\ ~lv_cmds[j].ok

\* C12: when "virsh define" or "virsh start" exits non-zero during
\* create_domain, the failure reaches the caller: create_domain does not
\* return normally.
C12_FailurePropagated == DefineOrStartFailed => lv_last.result = "raised"

\* The targets the documentation names, in order.
SequentialTargets ==
    <<<<"v", "d", "a">>, <<"v", "d", "b">>, <<"v", "d", "c">>,
      <<"v", "d", "d">>, <<"v", "d", "e">>>>

IsVirtio(entry) == entry.bus = "virtio"

\* C20: the descriptor create_domain renders has exactly one virtio disk
\* entry per element of disks, the i-th targeting vda, vdb, ... in order
\* (hence pairwise distinct), with or without an image; with an image the
\* image is the vda entry.
C20_DiskDevices ==
    dx_pc = "rendered" =>
        LET virtio == SelectSeq(dx_xml, IsVirtio)
        IN  /\ Len(virtio) = dx_args.ndisks
            /\ \A i \in DOMAIN virtio : virtio[i].dev = SequentialTargets[i]
            /\ \A i, j \in DOMAIN virtio :
                  i # j => virtio[i].dev # virtio[j].dev
            /\ dx_args.image => virtio[1].source \in {PoolImage, AbsImage}

\* An image, one created disk and a config drive: vda, vdb and the cdrom.
C20_Witness ==
    /\ dx_pc = "rendered"
    /\ dx_args.image
    /\ dx_args.config_drive
    /\ dx_args.ndisks = 2
    /\ Len(dx_xml) = 3
    /\ dx_xml[2].dev = <<"v", "d", "b">>

-----------------------------------------------------------------------------
\* Token.save.

OtherProc(p) == CHOOSE q \in Procs : q # p

\* The other process has not begun its save.
SavesAlone(p) == tk_pc[OtherProc(p)] = "exists"

Checked(p) == tk_pc[p] # "exists"

\* C13: a save with force=False on an existing file raises
\* TokenFileAlreadyExistsError and leaves the file as it was; with force=True
\* it replaces the content with the saved token; when no file exists both
\* variants write it.
C13_Save ==
    \A p \in Procs :
        SavesAlone(p) =>
            /\ (Checked(p) /\ tk_seen[p] # "absent" /\ ~tk_force[p]) =>
                  /\ tk_pc[p] = "raised"
                  /\ tk_file = tk_seen[p]
                  /\ tk_log = <<>>
            /\ (Checked(p) /\ (tk_seen[p] = "absent" \/ tk_force[p])) =>
                  tk_pc[p] # "raised"
            /\ tk_pc[p] = "returned" => tk_file = p

\* A save with force=False met the old file and raised.
C13_Witness ==
    /\ tk_pc["p1"] = "raised"
    /\ ~tk_force["p1"]
    /\ tk_seen["p1"] = "old"
    /\ tk_file = "old"
    /\ SavesAlone("p1")

\* C14 as stated: under any interleaving of two saves with force=False a
\* file one of them has written is never overwritten by the other; the
\* content of an existing file changes only through a save with force=True.
C14_NeverOverwritten ==
    \A j \in DOMAIN tk_log :
        (tk_log[j].step = "open" /\ tk_log[j].before # "absent") =>
            tk_force[tk_log[j].proc]

\* C14: a save with force=False writes only when its own existence check
\* found no file; a file that was there at the check is left alone. The
\* check and the write are separate steps, so a file another process creates
\* between them is overwritten.
C14_WritesOnlyAfterAbsentCheck ==
    \A j \in DOMAIN tk_log :
        ~tk_force[tk_log[j].proc] => tk_seen[tk_log[j].proc] = "absent"

\* Both saves found no file, and the second open truncated what the first
\* save had written.
C14_Witness ==
    /\ \A p \in Procs : ~tk_force[p] /\ tk_seen[p] = "absent"
    /\ \E j \in DOMAIN tk_log :
          /\ tk_log[j].step = "open"
          /\ tk_log[j].proc = "p2"
          /\ tk_log[j].before = "p1"

\* C15: after every save that returns without error the file's permissions
\* are 0600, also when a forced save overwrote a file with broader
\* permissions.
C15_Mode600 ==
    \A p \in Procs : tk_pc[p] = "returned" => tk_mode = Mode600

\* A forced save has overwritten a file that had mode 0644.
C15_Witness ==
    /\ tk_pc["p1"] = "returned"
    /\ tk_force["p1"]
    /\ \E j \in DOMAIN tk_log :
          /\ tk_log[j].proc = "p1"
          /\ tk_log[j].step = "open"
          /\ tk_log[j].before = "old"
          /\ tk_log[j].mode = Mode644
    /\ tk_mode = Mode600

-----------------------------------------------------------------------------
\* IAMClient.

IamDone == iam_pc = "done"

\* The token endpoint answered with success and a JSON object that lacks
\* access_token or refresh_token.
FieldMissing ==
    /\ iam_reply.transport
    /\ ResponseOk(iam_reply.status)
    /\ iam_reply.object
    /\ iam_reply.fields # TokenFields

\* C16: when the token endpoint answers successfully with a JSON object that
\* lacks access_token or refresh_token, get_token_by_password and refresh
\* raise IAMClientError with a message that names a missing field (the
\* refresh_token when only that one is missing) and return no Token.
C16_MissingField ==
    (IamDone /\ iam_call \in {"get_token_by_password", "refresh"}
        /\ FieldMissing) =>
        /\ iam_result.kind = "IAMClientError"
        /\ iam_result.token = NoToken
        /\ \E f \in TokenFields \ iam_reply.fields :
              f \in Range(iam_result.msg)
        /\ iam_reply.fields = {"access_token"} =>
              "refresh_token" \in Range(iam_result.msg)

\* Authentication met a response without refresh_token.
C16_Witness ==
    /\ IamDone
    /\ iam_call = "get_token_by_password"
    /\ FieldMissing
    /\ iam_reply.fields = {"access_token"}
    /\ iam_result.kind = "IAMClientError"
    /\ "refresh_token" \in Range(iam_result.msg)

\* A transport error, a status that is not a success, a body that is not
\* JSON.
ApiFailure ==
    \/ ~iam_reply.transport
    \/ ~ResponseOk(iam_reply.status)
    \/ ~iam_reply.json

BadStatus == iam_reply.transport /\ ~ResponseOk(iam_reply.status)

\* The decimal digits of the statuses.
StatusDigits ==
    CASE iam_reply.status = 200 -> <<"2", "0", "0">>
      [] iam_reply.status = 401 -> <<"4", "0", "1">>
      [] iam_reply.status = 500 -> <<"5", "0", "0">>
      [] OTHER -> <<"?">>

\* The message has these fragments in a row.
MsgContains(frags) ==
    \E i \in 1..Len(iam_result.msg) :
        /\ i + Len(frags) - 1 <= Len(iam_result.msg)
        /\ SubSeq(iam_result.msg, i, i + Len(frags) - 1) = frags

\* What the messages call the three operations.
OperationName ==
    CASE iam_call = "get_token_by_password" -> "IAM authentication failed"
      [] iam_call = "refresh" -> "IAM refresh failed"
      [] iam_call = "me" -> "IAM token validation failed"
      [] OTHER -> "none"

\* C17 as stated: every such failure of the three calls is an IAMClientError,
\* and for a status that is not a success the error names the endpoint and
\* carries the status code and the body.
C17_ErrorNamesEndpoint ==
    (IamDone /\ ApiFailure) =>
        /\ iam_result.kind = "IAMClientError"
        /\ BadStatus =>
              /\ \E i \in DOMAIN iam_request.url :
                    iam_request.url[i] \in Range(iam_result.msg)
              /\ MsgContains(StatusDigits)
              /\ iam_reply.text \in Range(iam_result.msg)

\* C17: every transport error, status that is not a success and body that
\* is not JSON is reported by get_token_by_password, refresh and me as
\* IAMClientError; for a status that is not a success the message names the
\* operation that failed (not the endpoint) and carries the status code and
\* the body.
C17_ErrorNamesOperation ==
    (IamDone /\ ApiFailure) =>
        /\ iam_result.kind = "IAMClientError"
        /\ iam_result.token = NoToken
        /\ BadStatus =>
              /\ OperationName \in Range(iam_result.msg)
              /\ MsgContains(StatusDigits)
              /\ iam_reply.text \in Range(iam_result.msg)

\* refresh was answered with 401.
C17_Witness ==
    /\ IamDone
    /\ iam_call = "refresh"
    /\ iam_reply.transport
    /\ iam_reply.status = 401
    /\ iam_result.kind = "IAMClientError"
    /\ iam_result.msg =
          <<"IAM refresh failed", " (", "4", "0", "1", "): ", iam_reply.text>>

\* The ttl and scope refresh is to use.
GivenOrPriorTtl == IF Len(iam_ttl) = 0 THEN iam_token.ttl ELSE iam_ttl[1]
GivenOrPriorScope ==
    IF Len(iam_scope) = 0 THEN iam_token.scope ELSE iam_scope[1]

TtlDigits(t) == IF t = 0 THEN <<"0">> ELSE IF t = 60 THEN <<"6", "0">>
                ELSE <<"?">>

RefreshUsesGivenOrPrior ==
    (IamDone /\ iam_call = "refresh") =>
        /\ iam_request.ttl = TtlDigits(GivenOrPriorTtl)
        /\ iam_request.scope = GivenOrPriorScope
        /\ iam_result.kind = "Token" =>
              /\ iam_result.token.ttl = GivenOrPriorTtl
              /\ iam_result.token.scope = GivenOrPriorScope
              /\ iam_result.token # iam_token

\* C18: refresh sends, and returns a new Token with, the ttl argument when
\* one is given and the prior token's ttl otherwise, and the same for scope;
\* the Token passed in is never modified.
C18_Refresh ==
    /\ []RefreshUsesGivenOrPrior
    /\ [][iam_token' = iam_token]_vars

\* refresh with no ttl and an empty scope: the prior ttl, the given scope.
C18_Witness ==
    /\ IamDone
    /\ iam_call = "refresh"
    /\ iam_ttl = <<>>
    /\ iam_scope = <<"">>
    /\ iam_token.ttl = 60
    /\ iam_token.scope = "project:admin"
    /\ iam_result.kind = "Token"
    /\ iam_result.token.ttl = 60
    /\ iam_result.token.scope = ""

-----------------------------------------------------------------------------
\* _domains_for_backup.

\* The names of the test each pattern stands for.
NamesOf(pat) ==
    CASE pat = Vm2 -> {Vm2}
      [] pat = StandStar -> {Stand01, Stand02}
      [] pat = VmAny -> {Vm1, Vm2}
      [] pat = Star02 -> {Stand02}
      [] OTHER -> {}

\* The requested names that exist and that no pattern stands for.
Selected ==
    {n \in Range(sel_domains) :
        /\ n \in sel_all
        /\ \A j \in DOMAIN sel_exclude : n \notin NamesOf(sel_exclude[j])}

\* C19: the result of _domains_for_backup holds exactly the requested names
\* that exist among the hypervisor's domains and that no exclude pattern
\* matches, by exact name or shell-style wildcard, each once and in the
\* order requested; (vm1, vm2, stand-01, stand-02) with excludes
\* (vm2, stand-*) yields [vm1].
C19_DomainsForBackup ==
    sel_pc = "done" =>
        /\ Range(sel_result) = Selected
        /\ sel_result = Among(sel_domains, Selected)
        /\ (/\ sel_domains = TestDomains
            /\ sel_exclude = TestExclude
            /\ sel_all = Range(TestDomains)) => sel_result = <<Vm1>>

\* The call of the test.
C19_Witness ==
    /\ sel_pc = "done"
    /\ sel_domains = TestDomains
    /\ sel_exclude = TestExclude
    /\ sel_all = Range(TestDomains)
    /\ sel_result = <<Vm1>>

-----------------------------------------------------------------------------
\* The positions of the calls of one operation in the running invocation.
Creates == CallIdx("create_snapshot")
Exports == CallIdx("backup_domain_disks")
Destroys == CallIdx("destroy_snapshot")

\* Every position in A is before every position in B.
AllBefore(A, B) == \A i \in A : \A j \in B : i < j

\* Every position in B has a position of A before it.
Preceded(B, A) == \A j \in B : \E i \in A : i < j

\* The parts of the phase order of _backup_domain that do not involve the
\* relation of destroy_snapshot to the disk export.
PhaseOrderRest ==
    /\ Preceded(Creates, OkIdx("backup_domain_spec"))
    /\ AllBefore(Creates, Exports)
    /\ Exports # {} => Cardinality(Creates) = Len(volumes)
    /\ CallIdx("volume_used_bytes") # {} =>
          /\ AllBefore(Destroys, CallIdx("volume_used_bytes"))
          /\ Cardinality(Destroys) = Len(volumes_with_snapshots)
    /\ FailedIdx("backup_domain_spec") # {} =>
          Creates = {} /\ Destroys = {}

\* C21 as stated: the domain specification is exported before any snapshot is
\* created, every create_snapshot call precedes the disk export, every
\* destroy_snapshot call comes after the disk export has returned or raised,
\* volume_used_bytes is queried only after all destroy_snapshot attempts, and
\* a raising specification export leaves no snapshot created or destroyed.
C21_DestroyAfterExport ==
    /\ PhaseOrderRest
    /\ Preceded(Destroys, Exports)

\* C21, amended: as stated, except that teardown follows the end of the try
\* block, not the disk export. A destroy_snapshot call comes after the disk
\* export has returned or raised, or after a create_snapshot call has raised;
\* in the second case the disk export is not called at all, and no further
\* snapshot is created. The disk export, when called, follows one
\* create_snapshot call per volume and precedes every destroy_snapshot call.
C21_PhaseOrder ==
    /\ PhaseOrderRest
    /\ Destroys # {} =>
          IF Exports # {}
          THEN AllBefore(Exports, Destroys)
          ELSE Preceded(Destroys, FailedIdx("create_snapshot"))
    /\ \A j \in FailedIdx("create_snapshot") : \A i \in Creates : i <= j

\* A domain with two disks has gone through every phase.
C21_Witness ==
    /\ pc = "returned"
    /\ OkIdx("backup_domain_spec") # {}
    /\ Cardinality(OkIdx("create_snapshot")) = 2
    /\ OkIdx("backup_domain_disks") # {}
    /\ Cardinality(CallIdx("destroy_snapshot")) = 2
    /\ Cardinality(CallIdx("volume_used_bytes")) = 2

-----------------------------------------------------------------------------
\* The disk images the last create_domain created with qemu-img that are
\* still in the pool.
CreatedRemaining == {f \in lv_files : f[1] = lv_uuid}

\* C22: create_domain is all-or-nothing. After a create_domain for a name
\* that was not defined has finished, either the domain is defined and
\* running, or it is not defined and none of the disk images this call
\* created remain; a "virsh define" that succeeds followed by a "virsh start"
\* that fails leaves no defined domain whose disk images have been deleted.
C22_AllOrNothing ==
    (lv_last.op = "create_domain" /\ lv_last.absent
        /\ lv_last.result = "returned") =>
        \/ lv_state[lv_last.name] = "running"
        \/ /\ lv_state[lv_last.name] = "undefined"
           /\ CreatedRemaining = {}

-----------------------------------------------------------------------------
\* backup_domains has returned after the summary.
Terminated == pc = "done" /\ summary

\* No step of the run is taken twice: no domain is attempted again and,
\* within one _backup_domain, no call is made twice at the same position.
NoStepRepeated ==
    /\ Len(attempted) <= Len(domains)
    /\ attempted = SubSeq(domains, 1, Len(attempted))
    /\ \A i, j \in DOMAIN calls :
          (calls[i].op = calls[j].op /\ calls[i].pos = calls[j].pos) => i = j

\* C23: when every external command and backend call returns or raises,
\* backup_domains eventually returns after the summary, whatever fails, and
\* no failure makes a step run again.
C23_Termination == <>Terminated /\ []NoStepRepeated

\* The run has ended after two domains: the first raised, the teardown of
\* the second met a failing destroy_snapshot.
C23_Witness ==
    /\ Terminated
    /\ outcomes = <<"raised", "returned">>
    /\ FailedIdx("destroy_snapshot") # {}

-----------------------------------------------------------------------------
\* The positions of a command in the log of backup_domain.
CmdIdx(cmd) == {j \in DOMAIN bd_cmds : bd_cmds[j].cmd = cmd}

\* backup_domain has returned or raised.
CopyEnded == bd_pc \in {"returned", "raised"}

\* C24: in backup_domain of an active domain every "virsh suspend" attempt
\* is followed by a "virsh resume" attempt before backup_domain returns or
\* raises, whether the suspend or a disk copy succeeded or failed, and the
\* disks are copied between the two; for an inactive domain neither suspend
\* nor resume is invoked and the disks are copied directly; domain.xml is
\* written before any disk is copied.
C24_SuspendResume ==
    /\ CopyEnded =>
          /\ \A j \in CmdIdx("virsh suspend") :
                \E i \in CmdIdx("virsh resume") : j < i
          /\ Cardinality(CmdIdx("virsh resume"))
               = Cardinality(CmdIdx("virsh suspend"))
    /\ \A i \in CmdIdx("virsh resume") :
          /\ \E j \in CmdIdx("virsh suspend") : j < i
          /\ \A c \in CmdIdx("cp") : c < i
    /\ lv_state[bd_name] = "shutoff" =>
          /\ CmdIdx("virsh suspend") = {}
          /\ CmdIdx("virsh resume") = {}
          /\ bd_pc = "returned" =>
                Cardinality({c \in CmdIdx("cp") : bd_cmds[c].ok})
                  = Len(lv_disks[bd_name])
    /\ (lv_state[bd_name] # "shutoff" /\ CmdIdx("cp") # {}) =>
          \E j \in CmdIdx("virsh suspend") :
              bd_cmds[j].ok /\ \A c \in CmdIdx("cp") : j < c
    /\ \A c \in CmdIdx("cp") :
          \E j \in CmdIdx("domain.xml") : bd_cmds[j].ok /\ j < c

\* The second disk copy of a suspended domain failed; the domain was resumed
\* and backup_domain raised.
C24_Witness ==
    /\ bd_pc = "raised"
    /\ \E j \in CmdIdx("virsh suspend") : bd_cmds[j].ok
    /\ Cardinality(CmdIdx("cp")) = 2
    /\ \E c \in CmdIdx("cp") : ~bd_cmds[c].ok
    /\ bd_cmds[Len(bd_cmds)] = Cmd("virsh resume", TRUE)

====
